---- MODULE Spec2Model ----
(***************************************************************************)
(* Model of the lighthouse-integration MCP server:                         *)
(*   src/index.ts              dispatcher, session manager, tool handlers  *)
(*   src/lighthouse-handler.ts LighthouseHandler (audit runner, metrics)   *)
(***************************************************************************)
EXTENDS Integers, FiniteSets, Sequences, TLC

VARIABLES
    mainPc,     \* position of main(): "boot", "opened", "serving", "exited"
    exitCode,   \* argument of process.exit, -1 while the process runs
    browser,    \* module variable browser: 0 is null, n > 0 a Browser handle
    pages,      \* module variable pages: set of <<key, page handle>> entries
    pageId,     \* module variable pageId
    launches,   \* number of puppeteer.launch calls that resolved
    newPages,   \* number of browser.newPage calls that resolved
    handed,     \* page handles returned by getCurrentPage since openBrowser
    calls,      \* the CallToolRequest handler invocations, per slot
    started,    \* number of tool calls received
    chromes,    \* chrome-launcher instances: id -> "running"/"killed"/"killFailed"
    files,      \* report files written by fs.writeFileSync
    clock,      \* the wall clock read by new Date()
    closed,     \* Browser handles on which browser.close() resolved
    signalled,  \* a SIGINT was delivered to the process
    mPc,        \* extractKeyMetrics harness: "input" or "done"
    mIn,        \* extractKeyMetrics harness: the argument
    mOut        \* extractKeyMetrics harness: the returned value

vars == <<mainPc, exitCode, browser, pages, pageId, launches, newPages, handed,
          calls, started, chromes, files, clock, closed, signalled, mPc, mIn, mOut>>

sessionVars == <<browser, pages, pageId, launches, newPages, handed>>
auditVars == <<chromes, files, clock>>
metricVars == <<mPc, mIn, mOut>>
lifeVars == <<closed, signalled>>

(***************************************************************************)
(* JavaScript values.  Every value is a record tagged by its type; numbers *)
(* are kept in thousandths (milli), so 0.873 is Frac(873) and 87 is        *)
(* Num(87).                                                                *)
(***************************************************************************)
Undef == [t |-> "undefined"]
Null == [t |-> "null"]
NaN == [t |-> "nan"]
Frac(m) == [t |-> "number", milli |-> m]
Num(n) == Frac(n * 1000)
Str(s) == [t |-> "string", s |-> s]
Bool(b) == [t |-> "boolean", b |-> b]
Obj(f) == [t |-> "object", f |-> f]
EmptyObj == Obj([k \in {} |-> Undef])

\* ToBoolean, as applied by !x, if (x) and x || y
Truthy(v) ==
    CASE v.t = "undefined" -> FALSE
      [] v.t = "null" -> FALSE
      [] v.t = "nan" -> FALSE
      [] v.t = "number" -> v.milli # 0
      [] v.t = "string" -> v.s # ""
      [] v.t = "boolean" -> v.b
      [] OTHER -> TRUE

\* property read v[k] on a value that is neither null nor undefined
Get(v, k) == IF v.t = "object" /\ k \in DOMAIN v.f THEN v.f[k] ELSE Undef

\* optional chaining v?.[k]
OptGet(v, k) == IF v.t \in {"undefined", "null"} THEN Undef ELSE Get(v, k)

\* ToNumber on the values a score can hold
ToNumber(v) ==
    CASE v.t = "number" -> v
      [] v.t = "null" -> Frac(0)
      [] v.t = "boolean" -> IF v.b THEN Frac(1000) ELSE Frac(0)
      [] OTHER -> NaN

\* x * 100
Times100(x) == IF x.t = "number" THEN Frac(x.milli * 100) ELSE NaN

MathRoundTrunc(x) == IF x.t = "number" THEN Frac((x.milli \div 1000) * 1000) ELSE NaN

\* Math.round(x): floor(x + 0.5)
MathRound(x) == IF x.t = "number" THEN Frac(((x.milli + 500) \div 1000) * 1000) ELSE NaN

(***************************************************************************)
(* LighthouseHandler.extractKeyMetrics                                     *)
(***************************************************************************)
InvalidResults == Obj([error |-> Str("Invalid Lighthouse results")])

\* the four category blocks: <<category id, key written to metrics>>
CategoryKeys ==
    { <<"performance", "performanceScore">>,
      <<"accessibility", "accessibilityScore">>,
      <<"best-practices", "bestPracticesScore">>,
      <<"seo", "seoScore">> }

KeyAuditsShort ==
    { "first-contentful-paint", "largest-contentful-paint", "total-blocking-time",
      "cumulative-layout-shift", "speed-index" }

KeyAudits ==
    { "first-contentful-paint", "largest-contentful-paint", "total-blocking-time",
      "cumulative-layout-shift", "speed-index", "interactive" }

\* Math.round(results.categories[c].score * 100)
CategoryScore(results, c) ==
    MathRound(Times100(ToNumber(Get(Get(Get(results, "categories"), c), "score"))))

CategoryScores(results) ==
    LET present == { p \in CategoryKeys :
                       Truthy(OptGet(Get(results, "categories"), p[1])) }
        catOf(k) == CHOOSE p \in present : p[2] = k
    IN  [k \in { p[2] : p \in present } |-> CategoryScore(results, catOf(k)[1])]

AuditEntry(a) ==
    Obj([score |-> Get(a, "score"),
         value |-> Get(a, "numericValue"),
         displayValue |-> Get(a, "displayValue")])

KeyAuditEntries(results) ==
    LET audits == Get(results, "audits")
    IN  [k \in { a \in KeyAudits : Truthy(Get(audits, a)) } |->
            AuditEntry(Get(audits, k))]

extractKeyMetricsNoGuard(results) ==
    Obj(CategoryScores(results) @@ KeyAuditEntries(results))

extractKeyMetrics(results) ==
    IF ~Truthy(results) \/ ~Truthy(Get(results, "audits"))
    THEN InvalidResults
    ELSE Obj(CategoryScores(results) @@ KeyAuditEntries(results))

(***************************************************************************)
(* Bounds of the model                                                     *)
(***************************************************************************)
MaxCalls == 2      \* tool calls received in one run of the server
MaxClock == 1      \* last instant of the wall clock

\* handler invocations that can be in flight
Slots == { 1, 2 }

(***************************************************************************)
(* The tool registry (src/index.ts, const tools) and the `in` operator     *)
(***************************************************************************)
BrowserTools ==
    { "puppeteer_navigate", "puppeteer_screenshot", "puppeteer_click",
      "puppeteer_fill", "puppeteer_select", "puppeteer_hover",
      "puppeteer_evaluate" }

AuditTools == { "lighthouse_analyze", "lighthouse_get_metrics" }

\* the own keys of the object literal `tools`
ToolKeys == BrowserTools \cup AuditTools

\* properties `tools` inherits from Object.prototype, as far as ToolNames
\* draws on them: functions ...
InheritedFunctions == { "toString", "hasOwnProperty" }
\* ... and the accessor __proto__, whose value is not callable
InheritedKeys == InheritedFunctions \cup { "__proto__" }

\* names a client can send
ToolNames == ToolKeys \cup InheritedKeys \cup { "puppeteer_close", "" }

\* `tool in tools`: own keys and the prototype chain
InTools(tool) == tool \in ToolKeys \cup InheritedKeys

(***************************************************************************)
(* Arguments of a call (request.parameters); an absent argument is Undef   *)
(***************************************************************************)
Arr(items) == [t |-> "array", items |-> items]

NoArgs ==
    [selector |-> Undef, categories |-> Undef, format |-> Undef,
     outputPath |-> Undef, onlyMetrics |-> Undef]

ArgsFor(tool) ==
    CASE tool = "puppeteer_screenshot" ->
           { [NoArgs EXCEPT !.selector = sel] : sel \in { Undef, Str("#main") } }
      [] tool = "lighthouse_analyze" ->
           { [NoArgs EXCEPT !.categories = c, !.format = f,
                            !.outputPath = o, !.onlyMetrics = m] :
               c \in { Undef, Arr({"seo"}) },
               f \in { Undef, Str("html"), Str("pdf") },
               o \in { Undef, Str("/out") },
               m \in { Undef, Bool(TRUE) } }
      [] tool = "lighthouse_get_metrics" ->
           { [NoArgs EXCEPT !.categories = c] :
               c \in { Undef, Arr({"seo"}) } }
      [] tool \in { "puppeteer_click", "puppeteer_fill", "puppeteer_select",
                     "puppeteer_hover" } ->
           { [NoArgs EXCEPT !.selector = Str("#main")] }
      [] OTHER -> { NoArgs }

\* a || b
Or(a, b) == IF Truthy(a) THEN a ELSE b

\* destructuring default: a when it is not undefined, else b
Default(a, b) == IF a = Undef THEN b ELSE a

(***************************************************************************)
(* Handler invocations                                                     *)
(***************************************************************************)
NoEnvelope == [kind |-> "none", val |-> Undef]
ResultEnvelope(v) == [kind |-> "result", val |-> v]
ErrorEnvelope(msg) == [kind |-> "error", val |-> msg]

NoOptions ==
    [categories |-> Undef, format |-> Undef, outputPath |-> Undef,
     onlyCategories |-> Undef]

NoConfig == [output |-> Undef, onlyCategories |-> Undef]

Idle ==
    [pc |-> "idle", tool |-> "", args |-> NoArgs, key |-> -1, page |-> 0,
     invoked |-> FALSE, engineThrew |-> FALSE, found |-> "unasked",
     captured |-> FALSE,
     options |-> NoOptions, config |-> NoConfig, chrome |-> 0,
     result |-> Undef, writeFailed |-> FALSE, wrote |-> 0, run |-> NoEnvelope,
     handler |-> NoEnvelope, env |-> NoEnvelope]

(***************************************************************************)
(* Initial state: the module-level declarations of src/index.ts            *)
(***************************************************************************)
SessionInit ==
    /\ browser = 0
    /\ pages = {}
    /\ pageId = 0
    /\ launches = 0
    /\ newPages = 0
    /\ handed = {}

MainInit ==
    /\ mainPc = "boot"
    /\ exitCode = -1
    /\ calls = [s \in Slots |-> Idle]
    /\ started = 0
    /\ chromes = <<>>
    /\ files = {}
    /\ clock = 0
    /\ closed = {}
    /\ signalled = FALSE

MetricsIdle ==
    /\ mPc = "input"
    /\ mIn = Undef
    /\ mOut = Undef

Init == SessionInit /\ MainInit /\ MetricsIdle

(***************************************************************************)
(* Strings built by template literals, and engine failures                 *)
(***************************************************************************)
\* a template literal: the sequence of its literal and interpolated parts
Tpl(parts) == [t |-> "template", parts |-> parts]

Url == Str("https://example.com")

\* e.message of the Error an engine call rejects with
EngineError(op) == Tpl(<<Str(op), Str(" rejected")>>)

\* TypeError raised by the runtime for a call of a non-function
NotAFunction == Str("tools[tool] is not a function")

(***************************************************************************)
(* CallToolRequestSchema handler: the try/catch around tools[tool](...)    *)
(***************************************************************************)
CaughtRethrown(c, msg) ==
    [c EXCEPT !.pc = "done", !.env = [kind |-> "thrown", val |-> msg]]

\* catch (e) { return { error: e.message } }
Caught(c, msg) == [c EXCEPT !.pc = "done", !.env = ErrorEnvelope(msg)]

\* return { result }
Returned(c, v) == [c EXCEPT !.pc = "done", !.env = ResultEnvelope(v)]

\* how a function ends: it returns a value or throws an error with a message
Return(v) == [kind |-> "return", val |-> v]
Throw(msg) == [kind |-> "throw", val |-> msg]

\* lines 374-384: tools[tool](...) ended with outcome o
Settle(c, o) ==
    IF o.kind = "throw"
    THEN Caught([c EXCEPT !.handler = o], o.val)
    ELSE Returned([c EXCEPT !.handler = o], o.val)

\* an engine call made for c rejected with msg, and nothing in the handler
\* catches it
EngineThrew(c, msg) == Settle([c EXCEPT !.engineThrew = TRUE], Throw(msg))

\* if (!(tool in tools)) return { error: `Tool ${tool} not found` }
NotFound(c) ==
    [c EXCEPT !.pc = "done",
              !.env = ErrorEnvelope(Tpl(<<Str("Tool "), Str(c.tool), Str(" not found")>>))]

\* tools[tool](request.parameters) for a property inherited from Object.prototype
InheritedCall(c) ==
    CASE c.tool = "toString" ->
           Settle([c EXCEPT !.invoked = TRUE], Return(Str("[object Object]")))
      [] c.tool = "hasOwnProperty" ->
           Settle([c EXCEPT !.invoked = TRUE], Return(Bool(FALSE)))
      [] OTHER -> Settle(c, Throw(NotAFunction))

(***************************************************************************)
(* Session manager: openBrowser, getCurrentPage                            *)
(***************************************************************************)
\* `page_${pageId}`
PageKey(id) == <<"page_", id>>

Has(m, k) == \E e \in m : e[1] = k
GetPage(m, k) == (CHOOSE e \in m : e[1] = k)[2]
SetPage(m, k, h) == { e \in m : e[1] # k } \cup { <<k, h>> }

LaunchedBrowserDropped(h) == 0

\* browser = await puppeteer.launch(...): the value the module variable gets
LaunchedBrowser(h) == h

\* openBrowser lines 26-32: a previous browser b is closed; a failure of
\* close is logged and swallowed
OpenBrowserClose(b, cl, ok) == IF b # 0 /\ ok THEN cl \cup { b } ELSE cl

\* openBrowser after puppeteer.launch resolved
OpenBrowserDone ==
    /\ browser' = LaunchedBrowser(launches + 1)
    /\ launches' = launches + 1
    /\ pages' = {}
    /\ pageId' = 0
    /\ handed' = {}
    /\ UNCHANGED newPages

GetCurrentPageLookupAlwaysNew(c, m, id) ==
    [c EXCEPT !.key = PageKey(id), !.pc = "newPage"]

\* getCurrentPage from line 49 on, with the page table m and counter id
GetCurrentPageLookup(c, m, id) ==
    LET k == PageKey(id)
    IN  IF Has(m, k)
        THEN [c EXCEPT !.key = k, !.page = GetPage(m, k), !.pc = "act"]
        ELSE [c EXCEPT !.key = k, !.pc = "newPage"]

\* the handles getCurrentPage has returned, after call record c was produced
Handed(h, c) == IF c.pc = "act" THEN h \cup { c.page } ELSE h

\* getCurrentPage up to its first await
GetCurrentPageEnter(s, c) ==
    IF browser = 0
    THEN /\ calls' = [calls EXCEPT ![s] = [c EXCEPT !.pc = "opening"]]
         /\ UNCHANGED sessionVars
    ELSE LET d == GetCurrentPageLookup(c, pages, pageId)
         IN  /\ calls' = [calls EXCEPT ![s] = d]
             /\ handed' = Handed(handed, d)
             /\ UNCHANGED <<browser, pages, pageId, launches, newPages>>

(***************************************************************************)
(* Audit handlers up to the launch of the headless instance                *)
(***************************************************************************)
AllCategories == { "performance", "accessibility", "best-practices", "seo", "pwa" }
DefaultCategories == { "performance", "accessibility", "best-practices", "seo" }

\* the LighthouseOptions literal built by the handler
OptionsOf(tool, args) ==
    IF tool = "lighthouse_analyze"
    THEN [categories |-> Or(args.categories, Arr(DefaultCategories)),
          format |-> Or(args.format, Str("json")),
          outputPath |-> Or(args.outputPath, Str("./reports")),
          onlyCategories |-> Undef]
    ELSE [categories |-> Or(args.categories, Arr({"performance"})),
          format |-> Undef,
          outputPath |-> Undef,
          onlyCategories |-> Bool(TRUE)]

\* runLighthouse's destructuring of options, with its defaults
Destructured(o) ==
    [categories |-> Default(o.categories, Arr(DefaultCategories)),
     format |-> Default(o.format, Str("json")),
     outputPath |-> o.outputPath,
     onlyCategories |-> Default(o.onlyCategories, Bool(FALSE))]

(***************************************************************************)
(* main(): startup                                                         *)
(***************************************************************************)
\* await openBrowser() at line 331; browser is null, so nothing is closed
MainOpenBrowser ==
    /\ mainPc = "boot"
    /\ \E ok \in BOOLEAN, closeOk \in BOOLEAN :
         /\ closed' = OpenBrowserClose(browser, closed, closeOk)
         /\ IF ok
            THEN /\ OpenBrowserDone
                 /\ mainPc' = "opened"
                 /\ UNCHANGED exitCode
            ELSE /\ mainPc' = "exited"
                 /\ exitCode' = 1
                 /\ UNCHANGED sessionVars
    /\ UNCHANGED <<calls, started, auditVars, metricVars, signalled>>

\* handlers registered, await server.start()
MainServerStart ==
    /\ mainPc = "opened"
    /\ \E ok \in BOOLEAN :
         IF ok
         THEN mainPc' = "serving" /\ UNCHANGED exitCode
         ELSE mainPc' = "exited" /\ exitCode' = 1
    /\ UNCHANGED <<sessionVars, calls, started, auditVars, metricVars, lifeVars>>

(***************************************************************************)
(* A tool call arrives: the handler runs up to its first await             *)
(***************************************************************************)
Receive(s, tool, args) ==
    /\ mainPc = "serving"
    /\ started < MaxCalls
    /\ calls[s].pc = "idle"
    \* slots only name the invocations in flight: a call takes the first free one
    /\ \A x \in Slots : x < s => calls[x].pc # "idle"
    /\ started' = started + 1
    /\ LET c == [Idle EXCEPT !.tool = tool, !.args = args]
       IN  IF ~InTools(tool)
           THEN /\ calls' = [calls EXCEPT ![s] = NotFound(c)]
                /\ UNCHANGED sessionVars
           ELSE IF tool \in BrowserTools
           THEN GetCurrentPageEnter(s, [c EXCEPT !.invoked = TRUE])
           ELSE IF tool \in AuditTools
           THEN /\ calls' = [calls EXCEPT ![s] =
                               [c EXCEPT !.invoked = TRUE, !.pc = "launch",
                                         !.options = OptionsOf(tool, args)]]
                /\ UNCHANGED sessionVars
           ELSE /\ calls' = [calls EXCEPT ![s] = InheritedCall(c)]
                /\ UNCHANGED sessionVars
    /\ UNCHANGED <<mainPc, exitCode, auditVars, metricVars, lifeVars>>

\* a call that arrives while no other call is in flight
CallTool(s, tool, args) ==
    /\ \A x \in Slots : calls[x].pc = "idle"
    /\ Receive(s, tool, args)

\* a call that arrives at any time, also while another call awaits an engine
CallToolOverlapping(s, tool, args) == Receive(s, tool, args)

(***************************************************************************)
(* getCurrentPage resumes after its await                                  *)
(***************************************************************************)
GetCurrentPageResume(s) ==
    LET c == calls[s]
    IN  /\ c.pc \in { "opening", "newPage" }
        /\ \E ok \in BOOLEAN :
             IF c.pc = "opening"
             THEN \* await openBrowser() at line 46
                  IF ok
                  THEN /\ OpenBrowserDone
                       /\ calls' = [calls EXCEPT ![s] =
                                      GetCurrentPageLookup(c, {}, 0)]
                  ELSE /\ calls' = [calls EXCEPT ![s] =
                                      EngineThrew(c, EngineError("puppeteer.launch"))]
                       /\ UNCHANGED sessionVars
             ELSE \* await browser!.newPage() at line 51
                  IF ok
                  THEN LET h == newPages + 1
                           m == SetPage(pages, c.key, h)
                           d == [c EXCEPT !.page = GetPage(m, c.key), !.pc = "act"]
                       IN  /\ newPages' = h
                           /\ pages' = m
                           /\ calls' = [calls EXCEPT ![s] = d]
                           /\ handed' = Handed(handed, d)
                           /\ UNCHANGED <<browser, pageId, launches>>
                  ELSE /\ calls' = [calls EXCEPT ![s] =
                                      EngineThrew(c, EngineError("browser.newPage"))]
                       /\ UNCHANGED sessionVars
        /\ UNCHANGED <<mainPc, exitCode, started, auditVars, metricVars, lifeVars>>

(***************************************************************************)
(* Browser-automation handlers: the engine action on the page              *)
(***************************************************************************)
\* the value a browser-automation handler returns when its action resolved
ActionResult(c) ==
    CASE c.tool = "puppeteer_navigate" -> Tpl(<<Str("Navigated to "), Url>>)
      [] c.tool = "puppeteer_click" -> Tpl(<<Str("Clicked "), c.args.selector>>)
      [] c.tool = "puppeteer_fill" -> Tpl(<<Str("Filled "), c.args.selector>>)
      [] c.tool = "puppeteer_select" -> Tpl(<<Str("Selected "), c.args.selector>>)
      [] c.tool = "puppeteer_hover" -> Tpl(<<Str("Hovered over "), c.args.selector>>)
      [] OTHER -> Obj([r \in { "Execution result:", "Console output:" } |->
                         IF r = "Execution result:" THEN Undef ELSE Str("")])

\* the message of the error the handler throws when its action rejected
ActionError(c, op) ==
    IF c.tool = "puppeteer_click"
    THEN Tpl(<<Str("Failed to click "), c.args.selector, Str(": "), EngineError(op)>>)
    ELSE EngineError(op)

\* the first engine call on the page resolves or rejects
Act(s) ==
    LET c == calls[s]
    IN  /\ c.pc = "act"
        /\ \E ok \in BOOLEAN :
             calls' = [calls EXCEPT ![s] =
                 IF ~ok THEN EngineThrew(c, ActionError(c, "page action"))
                 ELSE IF c.tool = "puppeteer_screenshot"
                 THEN \* page.setViewport resolved
                      IF Truthy(c.args.selector)
                      THEN [c EXCEPT !.pc = "query"]
                      ELSE [c EXCEPT !.pc = "shot"]
                 ELSE Settle(c, Return(ActionResult(c)))]
        /\ UNCHANGED <<mainPc, exitCode, sessionVars, started, auditVars, metricVars, lifeVars>>

ElementNotFound(c) ==
    Tpl(<<Str("Element with selector \""), c.args.selector, Str("\" not found")>>)

NoElementIgnored(c) == [c EXCEPT !.pc = "shot"]

\* if (!element) throw new Error(...) at lines 75-77
NoElement(c) == Settle(c, Throw(ElementNotFound(c)))

\* await page.$(args.selector) at line 74
ScreenshotQuery(s) ==
    LET c == calls[s]
    IN  /\ c.pc = "query"
        /\ \E r \in { "element", "null", "rejected" } :
             calls' = [calls EXCEPT ![s] =
                 CASE r = "element" -> [c EXCEPT !.pc = "shot", !.found = r]
                   [] r = "null" -> NoElement([c EXCEPT !.found = r])
                   [] OTHER -> EngineThrew(c, EngineError("page.$"))]
        /\ UNCHANGED <<mainPc, exitCode, sessionVars, started, auditVars, metricVars, lifeVars>>

ScreenshotResult(c) ==
    Obj([output |->
           IF Truthy(c.args.selector)
           THEN Tpl(<<Str("Screenshot taken of element "), c.args.selector>>)
           ELSE Tpl(<<Str("Screenshot taken at "), Num(800), Str("x"), Num(600)>>),
         output_image |-> Str("base64")])

\* await element.screenshot() / page.screenshot()
ScreenshotCapture(s) ==
    LET c == calls[s]
    IN  /\ c.pc = "shot"
        /\ \E ok \in BOOLEAN :
             calls' = [calls EXCEPT ![s] =
                 IF ok THEN Settle([c EXCEPT !.captured = TRUE],
                                   Return(ScreenshotResult(c)))
                 ELSE EngineThrew(c, EngineError("screenshot"))]
        /\ UNCHANGED <<mainPc, exitCode, sessionVars, started, auditVars, metricVars, lifeVars>>

(***************************************************************************)
(* LighthouseHandler.runLighthouse                                         *)
(***************************************************************************)
\* lighthouseConfig (port and logLevel left out)
ConfigOf(o) ==
    [output |-> Destructured(o).format,
     onlyCategories |-> IF Truthy(Destructured(o).onlyCategories)
                        THEN Destructured(o).categories
                        ELSE Undef]

\* the categories the audit engine runs under a configuration
EngineCategories(config) ==
    IF config.onlyCategories = Undef THEN AllCategories
    ELSE config.onlyCategories.items

MetricAudit(name) ==
    Obj([score |-> Frac(900), numericValue |-> Num(1200), displayValue |-> Str(name)])

\* a report (lhr) of the categories cats: the metric audits belong to performance
Lhr(cats) ==
    Obj([k \in { "categories", "audits" } |->
          IF k = "categories"
          THEN Obj([c \in cats |-> Obj([score |-> Frac(873)])])
          ELSE Obj([a \in (IF "performance" \in cats THEN KeyAudits ELSE {})
                            \cup { "document-title" } |-> MetricAudit(a)])])

\* what `await lighthouse(url, config)` can resolve to
EngineResults(config) ==
    { Undef } \cup
    { Obj([lhr |-> Lhr(EngineCategories(config)), report |-> r]) :
        r \in { Str("report body"), Undef } }

DigitStr == <<"0", "1", "2", "3", "4", "5", "6", "7", "8", "9">>

\* new Date().toISOString() at instant t
ToISOString(t) == <<"2024-05-01T10", ":", "15", ":", "30.00", DigitStr[t + 1], "Z">>

ReplaceFirstColon(str) ==
    [i \in DOMAIN str |->
        IF str[i] = ":" /\ \A j \in 1..(i - 1) : str[j] # ":" THEN "-" ELSE str[i]]

\* str.replace(/:/g, '-')
ReplaceColons(str) == [i \in DOMAIN str |-> IF str[i] = ":" THEN "-" ELSE str[i]]

\* path.join(outputPath, `lighthouse-${...}.${format}`)
OutputFile(outputPath, t, format) ==
    [dir |-> outputPath.s,
     name |-> <<"lighthouse-">> \o ReplaceColons(ToISOString(t)) \o <<".", format.s>>]

\* fs.writeFileSync(outputFile, body): a file of the same path is replaced
WriteFile(fs, file, body) ==
    { f \in fs : f.path # file } \cup { [path |-> file, body |-> body] }

\* lines 51-60: the value runLighthouse returns
ReturnValue(d, result) ==
    IF d.format = Str("json")
    THEN Get(result, "lhr")
    ELSE Obj([k \in { "success", "format", "report" } \cup
                    (IF Truthy(d.outputPath) THEN { "filePath" } ELSE {}) |->
                CASE k = "success" -> Bool(TRUE)
                  [] k = "format" -> d.format
                  [] k = "filePath" -> d.outputPath
                  [] OTHER -> Get(result, "report")])

AuditHandlerRethrows(c, o) ==
    IF o.kind = "throw"
    THEN Settle([c EXCEPT !.run = o], o)
    ELSE Settle([c EXCEPT !.run = o], Return(o.val))

\* lighthouse_analyze / lighthouse_get_metrics after runLighthouse ended with
\* outcome o: the try/catch of the handler, then the dispatcher
AuditHandlerDone(c, o) ==
    Settle([c EXCEPT !.run = o],
        IF o.kind = "throw"
        THEN Return(Obj([success |-> Bool(FALSE), error |-> o.val]))
        ELSE IF c.tool = "lighthouse_get_metrics" \/ Truthy(c.args.onlyMetrics)
        THEN Return(Obj([success |-> Bool(TRUE), metrics |-> extractKeyMetrics(o.val)]))
        ELSE Return(o.val))

\* const chrome = await chromeLauncher.launch(...) at line 28
ChromeLaunch(s) ==
    LET c == calls[s]
    IN  /\ c.pc = "launch"
        /\ \E ok \in BOOLEAN :
             IF ok
             THEN /\ chromes' = Append(chromes, "running")
                  /\ calls' = [calls EXCEPT ![s] =
                       [c EXCEPT !.chrome = Len(chromes) + 1,
                                 !.config = ConfigOf(c.options),
                                 !.pc = "audit"]]
             ELSE /\ calls' = [calls EXCEPT ![s] =
                       AuditHandlerDone([c EXCEPT !.engineThrew = TRUE],
                                        Throw(EngineError("chromeLauncher.launch")))]
                  /\ UNCHANGED chromes
        /\ UNCHANGED <<mainPc, exitCode, sessionVars, started, files, clock, metricVars, lifeVars>>

AfterAuditNoFinally(c, o) ==
    IF o.kind = "throw" THEN AuditHandlerDone(c, o)
    ELSE [c EXCEPT !.run = o, !.pc = "kill"]

\* try { ... } finally: the body ended with outcome o, the finally block runs next
AfterAudit(c, o) == [c EXCEPT !.run = o, !.pc = "kill"]

\* await lighthouse(url, lighthouseConfig) at line 42, then lines 45-60 up to
\* the finally block
Audit(s) ==
    LET c == calls[s]
        d == Destructured(c.options)
    IN  /\ c.pc = "audit"
        /\ \/ \* the engine rejects
              /\ calls' = [calls EXCEPT ![s] =
                   AfterAudit([c EXCEPT !.engineThrew = TRUE],
                              Throw(EngineError("lighthouse")))]
              /\ UNCHANGED files
           \/ \E result \in EngineResults(c.config) :
                LET r == [c EXCEPT !.result = result]
                IN  IF result = Undef
                    THEN \* result.report or result.lhr of undefined
                         /\ calls' = [calls EXCEPT ![s] =
                              AfterAudit(r, Throw(Str("Cannot read properties of undefined")))]
                         /\ UNCHANGED files
                    ELSE IF Truthy(d.outputPath) /\ Truthy(Get(result, "report"))
                    THEN \E written \in BOOLEAN :
                           IF written
                           THEN /\ files' = WriteFile(files,
                                       OutputFile(d.outputPath, clock, d.format),
                                       Get(result, "report"))
                                /\ calls' = [calls EXCEPT ![s] =
                                     AfterAudit([r EXCEPT !.wrote = c.wrote + 1],
                                                Return(ReturnValue(d, result)))]
                           ELSE /\ calls' = [calls EXCEPT ![s] =
                                     AfterAudit([r EXCEPT !.engineThrew = TRUE,
                                                          !.writeFailed = TRUE],
                                                Throw(EngineError("fs.writeFileSync")))]
                                /\ UNCHANGED files
                    ELSE /\ calls' = [calls EXCEPT ![s] =
                              AfterAudit(r, Return(ReturnValue(d, result)))]
                         /\ UNCHANGED files
        /\ UNCHANGED <<mainPc, exitCode, sessionVars, started, chromes, clock, metricVars, lifeVars>>

\* finally { await chrome.kill() }: a rejection replaces the pending outcome;
\* then the handler and the dispatcher run to the response
Kill(s) ==
    LET c == calls[s]
    IN  /\ c.pc = "kill"
        /\ \E ok \in BOOLEAN :
             IF ok
             THEN /\ chromes' = [chromes EXCEPT ![c.chrome] = "killed"]
                  /\ calls' = [calls EXCEPT ![s] = AuditHandlerDone(c, c.run)]
             ELSE /\ chromes' = [chromes EXCEPT ![c.chrome] = "killFailed"]
                  /\ calls' = [calls EXCEPT ![s] =
                       AuditHandlerDone([c EXCEPT !.engineThrew = TRUE],
                                        Throw(EngineError("chrome.kill")))]
        /\ UNCHANGED <<mainPc, exitCode, sessionVars, started, files, clock, metricVars, lifeVars>>

(***************************************************************************)
(* The response leaves, the clock advances                                 *)
(***************************************************************************)
\* the transport sends the envelope the handler returned
Respond(s) ==
    /\ calls[s].pc = "done"
    /\ calls' = [calls EXCEPT ![s] = Idle]
    /\ UNCHANGED <<mainPc, exitCode, sessionVars, started, auditVars, metricVars, lifeVars>>

Tick ==
    /\ clock < MaxClock
    /\ clock' = clock + 1
    /\ UNCHANGED <<mainPc, exitCode, sessionVars, calls, started, chromes, files,
                   metricVars, lifeVars>>

Next ==
    \/ MainOpenBrowser
    \/ MainServerStart
    \/ \E s \in Slots, tool \in ToolNames : \E args \in ArgsFor(tool) :
         CallTool(s, tool, args)
    \/ \E s \in Slots : GetCurrentPageResume(s)
    \/ \E s \in Slots : Act(s)
    \/ \E s \in Slots : ScreenshotQuery(s)
    \/ \E s \in Slots : ScreenshotCapture(s)
    \/ \E s \in Slots : ChromeLaunch(s)
    \/ \E s \in Slots : Audit(s)
    \/ \E s \in Slots : Kill(s)
    \/ \E s \in Slots : Respond(s)
    \/ Tick

Spec == Init /\ [][Next]_vars

(***************************************************************************)
(* SIGINT                                                                  *)
(***************************************************************************)
\* SIGINT while main() has not yet reached process.on("SIGINT", ...) at line
\* 393: the program has no listener, the signal ends the process (status
\* 128 + 2) and the program closes nothing
SigintDefault ==
    /\ mainPc \in { "boot", "opened" }
    /\ signalled' = TRUE
    /\ mainPc' = "exited"
    /\ exitCode' = 130
    /\ UNCHANGED <<sessionVars, calls, started, auditVars, metricVars, closed>>

\* the listener of lines 393-399 up to await browser.close()
SigintHandler ==
    /\ mainPc = "serving"
    /\ signalled' = TRUE
    /\ IF browser # 0
       THEN mainPc' = "closing" /\ UNCHANGED <<exitCode, calls>>
       ELSE /\ mainPc' = "exited"
            /\ exitCode' = 0
            /\ calls' = [s \in Slots |-> Idle]
    /\ UNCHANGED <<sessionVars, started, auditVars, metricVars, closed>>

\* await browser.close() settles: process.exit(0) when it resolved; when it
\* rejected the listener's promise rejects unhandled, which ends the process
\* with code 1 or leaves it running, depending on the runtime
SigintClosed ==
    /\ mainPc = "closing"
    /\ \E r \in { "resolved", "crash", "warn" } :
         CASE r = "resolved" ->
                /\ closed' = closed \cup { browser }
                /\ mainPc' = "exited"
                /\ exitCode' = 0
                /\ calls' = [s \in Slots |-> Idle]
           [] r = "crash" ->
                /\ mainPc' = "exited"
                /\ exitCode' = 1
                /\ calls' = [s \in Slots |-> Idle]
                /\ UNCHANGED closed
           [] OTHER ->
                /\ mainPc' = "serving"
                /\ UNCHANGED <<exitCode, calls, closed>>
    /\ UNCHANGED <<sessionVars, started, auditVars, metricVars, signalled>>

NextLifecycle ==
    \/ MainOpenBrowser
    \/ MainServerStart
    \/ \E s \in Slots, tool \in ToolNames : \E args \in ArgsFor(tool) :
         CallTool(s, tool, args)
    \/ \E s \in Slots : GetCurrentPageResume(s)
    \/ \E s \in Slots : Act(s)
    \/ \E s \in Slots : ScreenshotQuery(s)
    \/ \E s \in Slots : ScreenshotCapture(s)
    \/ \E s \in Slots : ChromeLaunch(s)
    \/ \E s \in Slots : Audit(s)
    \/ \E s \in Slots : Kill(s)
    \/ \E s \in Slots : Respond(s)
    \/ Tick
    \/ SigintDefault
    \/ SigintHandler
    \/ SigintClosed

SpecLifecycle == Init /\ [][NextLifecycle]_vars

(***************************************************************************)
(* Overlapping calls: the handler is async and nothing serialises requests, *)
(* so a call can arrive while another awaits newPage or a page action       *)
(***************************************************************************)
OverlapTools == { "puppeteer_navigate", "puppeteer_hover" }

NextOverlap ==
    \/ MainOpenBrowser
    \/ MainServerStart
    \/ \E s \in Slots, tool \in OverlapTools : \E args \in ArgsFor(tool) :
         CallToolOverlapping(s, tool, args)
    \/ \E s \in Slots : GetCurrentPageResume(s)
    \/ \E s \in Slots : Act(s)
    \/ \E s \in Slots : Respond(s)

SpecOverlap == Init /\ [][NextOverlap]_vars

(***************************************************************************)
(* extractKeyMetrics on its own: the argument is drawn from MetricInputs   *)
(***************************************************************************)
ScoreMillis == 0..1000
ScoreSamples == { 0, 5, 499, 873, 1000 }

AuditNames ==
    <<"first-contentful-paint", "largest-contentful-paint", "total-blocking-time",
      "cumulative-layout-shift", "speed-index", "interactive",
      "first-meaningful-paint">>

AuditIndex(name) == CHOOSE i \in DOMAIN AuditNames : AuditNames[i] = name

\* the values an audit of the report can hold
AuditValues(name) ==
    { Null,
      Obj([score |-> Frac(100 * AuditIndex(name))]),
      Obj([score |-> Frac(100 * AuditIndex(name)),
           numericValue |-> Num(AuditIndex(name)),
           displayValue |-> Str(name)]) }

Range(f) == { f[x] : x \in DOMAIN f }

AuditSections ==
    UNION { { Obj(f) : f \in { g \in [present -> UNION { AuditValues(n) : n \in present }] :
                                 \A n \in present : g[n] \in AuditValues(n) } } :
            present \in SUBSET { "first-contentful-paint", "speed-index",
                                 "interactive", "first-meaningful-paint" } }
    \cup
    { Obj([n \in present |->
             Obj([score |-> Frac(100 * AuditIndex(n)),
                  numericValue |-> Num(AuditIndex(n)),
                  displayValue |-> Str(n)])]) :
        present \in SUBSET Range(AuditNames) }

CategorySections ==
    UNION { { Obj([c \in present |-> Obj([score |-> g[c]])]) :
                g \in [present -> { Null } \cup { Frac(m) : m \in ScoreSamples }] } :
            present \in SUBSET { "performance", "accessibility", "best-practices",
                                 "seo" } }
    \cup
    { Obj([c \in { cat, "pwa" } |-> Obj([score |-> Frac(m)])]) :
        cat \in { "performance", "seo" }, m \in ScoreMillis }

SomeAudits ==
    Obj([n \in { "first-contentful-paint", "document-title" } |->
           Obj([score |-> Frac(900), numericValue |-> Num(1200),
                displayValue |-> Str("1.2 s")])])

SomeCategories == Obj([c \in { "performance" } |-> Obj([score |-> Frac(873)])])

\* the envelope runLighthouse returns for a format other than json
SummaryEnvelopes ==
    { Obj([success |-> Bool(TRUE), format |-> Str(f), report |-> Str("report body")]) :
        f \in { "html", "pdf" } }
    \cup
    { Obj([success |-> Bool(TRUE), format |-> Str(f), filePath |-> Str("./reports"),
           report |-> Str("report body")]) : f \in { "html", "pdf" } }

WithoutAudits ==
    { Null, Undef, EmptyObj, Frac(0), Str(""), Bool(FALSE), Str("lhr"), Num(1) }
    \cup SummaryEnvelopes
    \cup { Obj([categories |-> c]) : c \in { SomeCategories, Null } }

WithAudits ==
    { Obj([audits |-> a]) : a \in { Null, Undef, SomeAudits } }
    \cup { Obj([audits |-> SomeAudits, categories |-> c]) :
             c \in CategorySections \cup { Null, Undef } }
    \cup { Obj([audits |-> a, categories |-> SomeCategories]) : a \in AuditSections }

MetricInputs == WithoutAudits \cup WithAudits

InitMetrics ==
    /\ SessionInit
    /\ MainInit
    /\ mPc = "input"
    /\ mIn \in MetricInputs
    /\ mOut = Undef

\* lighthouseHandler.extractKeyMetrics(mIn)
Extract ==
    /\ mPc = "input"
    /\ mPc' = "done"
    /\ mOut' = extractKeyMetrics(mIn)
    /\ UNCHANGED <<mainPc, exitCode, sessionVars, calls, started, auditVars, lifeVars, mIn>>

NextMetrics == Extract

SpecMetrics == InitMetrics /\ [][NextMetrics]_vars

(***************************************************************************)
(* Properties                                                              *)
(***************************************************************************)
RegisteredNames ==
    { "puppeteer_navigate", "puppeteer_screenshot", "puppeteer_click",
      "puppeteer_fill", "puppeteer_select", "puppeteer_hover",
      "puppeteer_evaluate", "lighthouse_analyze", "lighthouse_get_metrics" }

AutomationNames == RegisteredNames \ { "lighthouse_analyze", "lighthouse_get_metrics" }

Answered(s) == calls[s].pc = "done"

\* C1: a call whose tool name is none of the nine registered names is answered
\* with an {error: ...} envelope and no function is invoked for it.
C1_UnknownToolIsError ==
    \A s \in Slots :
        (Answered(s) /\ calls[s].tool \notin RegisteredNames) =>
            /\ calls[s].env.kind = "error"
            /\ ~calls[s].invoked

\* C2 as stated: a call of a registered tool is answered with {result: value}
\* when the handler completes and with {error: message} when the handler or
\* any engine call made for it throws.
C2_ErrorWheneverEngineThrows ==
    \A s \in Slots :
        (Answered(s) /\ calls[s].tool \in RegisteredNames) =>
            /\ calls[s].env.kind \in { "result", "error" }
            /\ (calls[s].handler.kind = "throw" \/ calls[s].engineThrew) =>
                   calls[s].env.kind = "error"

\* C2 as amended: a call of a registered tool is answered with exactly one
\* envelope, {result: value} with the handler's return value when the handler
\* completes and {error: message} with its message when the handler throws;
\* a browser-automation handler throws whenever an engine call made for it
\* throws; nothing propagates out of the dispatcher.
C2_EnvelopeFollowsHandler ==
    \A s \in Slots :
        (Answered(s) /\ calls[s].tool \in RegisteredNames) =>
            /\ calls[s].handler.kind \in { "return", "throw" }
            /\ calls[s].handler.kind = "return" =>
                   calls[s].env = [kind |-> "result", val |-> calls[s].handler.val]
            /\ calls[s].handler.kind = "throw" =>
                   calls[s].env = [kind |-> "error", val |-> calls[s].handler.val]
            /\ (calls[s].engineThrew /\ calls[s].tool \in AutomationNames) =>
                   calls[s].handler.kind = "throw"

C2_Witness ==
    \E s \in Slots :
        /\ Answered(s)
        /\ calls[s].tool = "puppeteer_click"
        /\ calls[s].engineThrew
        /\ calls[s].env.kind = "error"

\* C3 as stated: a failed analyze or get_metrics call (launch, audit engine,
\* report write or termination threw) is answered with {error: message}.
C3_AuditFailureIsErrorEnvelope ==
    \A s \in Slots :
        (Answered(s) /\ calls[s].tool \in { "lighthouse_analyze", "lighthouse_get_metrics" }
                     /\ calls[s].engineThrew) =>
            calls[s].env.kind = "error"

\* C3 as amended: a failed analyze or get_metrics call is answered with
\* {result: {success: false, error: message}}, the message being that of the
\* error runLighthouse threw.
C3_AuditFailureIsResultEnvelope ==
    \A s \in Slots :
        (Answered(s) /\ calls[s].tool \in { "lighthouse_analyze", "lighthouse_get_metrics" }
                     /\ calls[s].engineThrew) =>
            /\ calls[s].run.kind = "throw"
            /\ calls[s].env =
                 [kind |-> "result",
                  val |-> [t |-> "object",
                           f |-> [success |-> [t |-> "boolean", b |-> FALSE],
                                  error |-> calls[s].run.val]]]

C3_Witness ==
    \E s \in Slots :
        /\ Answered(s)
        /\ calls[s].tool = "lighthouse_get_metrics"
        /\ calls[s].engineThrew
        /\ calls[s].chrome # 0
        /\ chromes[calls[s].chrome] = "killFailed"

\* C4: between two openBrowser calls getCurrentPage hands out one page handle
\* only; at most one page is created per browser process, it is stored under
\* page_0, and every call holds the stored handle.
C4_SamePageHandle ==
    /\ Cardinality(handed) <= 1
    /\ newPages <= launches
    /\ Cardinality(pages) <= 1
    /\ \A e \in pages : e[1] = <<"page_", 0>> /\ handed \subseteq { e[2] }
    /\ \A s \in Slots : calls[s].page # 0 => <<<<"page_", 0>>, calls[s].page>> \in pages

C4_Witness ==
    /\ started = 2
    /\ \E s \in Slots :
         /\ calls[s].pc = "act"
         /\ calls[s].tool = "puppeteer_hover"
         /\ calls[s].page = 1
    /\ handed = { 1 }

\* C5: whenever a browser-automation handler has an action on a page in flight,
\* or getCurrentPage has newPage in flight, the browser handle is not null; and
\* a call is served only after startup's openBrowser succeeded.
C5_BrowserNotNull ==
    \A s \in Slots :
        /\ calls[s].pc \in { "newPage", "act", "query", "shot" } => browser # 0
        /\ calls[s].pc # "idle" => (mainPc = "serving" /\ launches >= 1)

C5_Witness ==
    \E s \in Slots :
        /\ calls[s].pc = "newPage"
        /\ calls[s].tool = "puppeteer_navigate"
        /\ browser # 0

\* C6: an instance launched by runLighthouse is running only while that
\* runLighthouse call is in its try block or its finally block; once the call
\* has returned or thrown, chrome.kill has been invoked on the instance.
C6_InstanceKilled ==
    /\ \A i \in DOMAIN chromes :
         chromes[i] = "running" =>
            \E s \in Slots : calls[s].chrome = i /\ calls[s].pc \in { "audit", "kill" }
    /\ \A s \in Slots :
         (calls[s].chrome # 0 /\ calls[s].pc \notin { "audit", "kill" }) =>
            chromes[calls[s].chrome] \in { "killed", "killFailed" }

C6_Witness ==
    \E s \in Slots :
        /\ Answered(s)
        /\ calls[s].chrome = 2
        /\ calls[s].run.kind = "throw"
        /\ ~calls[s].writeFailed
        /\ chromes = <<"killed", "killed">>

AuditRan(s) ==
    /\ Answered(s)
    /\ calls[s].tool \in { "lighthouse_analyze", "lighthouse_get_metrics" }
    /\ calls[s].chrome # 0

\* the engine resolved with a result that carries a non-empty report
GotReport(s) ==
    /\ calls[s].result.t = "object"
    /\ "report" \in DOMAIN calls[s].result.f
    /\ calls[s].result.f["report"].t = "string"
    /\ calls[s].result.f["report"].s # ""

RequestedFormat(s) ==
    IF calls[s].options.format = Undef THEN "json" ELSE calls[s].options.format.s

\* C7 as stated: an audit run with outputPath set has written exactly one
\* report file, an audit run without outputPath none.
C7_AlwaysOneReportFile ==
    \A s \in Slots :
        AuditRan(s) =>
            IF calls[s].options.outputPath # Undef
            THEN calls[s].wrote = 1
            ELSE calls[s].wrote = 0

\* C7 as amended: an audit run with outputPath set writes at most one report
\* file, and exactly one when the engine resolved with a non-empty report and
\* the write did not fail; the file is under outputPath and is named
\* lighthouse-<ISO timestamp, colons replaced by dashes>.<requested format>;
\* an audit run without outputPath writes no file.
C7_ReportFile ==
    \A s \in Slots :
        AuditRan(s) =>
            /\ calls[s].wrote =
                 IF /\ calls[s].options.outputPath # Undef
                    /\ GotReport(s)
                    /\ ~calls[s].writeFailed
                 THEN 1 ELSE 0
            /\ calls[s].wrote = 1 =>
                 \E f \in files, t \in 0..clock :
                    f.path =
                      [dir |-> calls[s].options.outputPath.s,
                       name |-> <<"lighthouse-", "2024-05-01T10", "-", "15", "-",
                                  "30.00", DigitStr[t + 1], "Z", ".",
                                  RequestedFormat(s)>>]

C7_Witness ==
    \E s \in Slots :
        /\ AuditRan(s)
        /\ calls[s].wrote = 1
        /\ RequestedFormat(s) = "pdf"
        /\ calls[s].options.outputPath = [t |-> "string", s |-> "/out"]
        /\ clock = 1
        /\ Cardinality(files) = 2

HasAuditsSection(v) == v.t = "object" /\ "audits" \in DOMAIN v.f /\ v.f["audits"].t = "object"

\* C8: extractKeyMetrics of an input without an audits section (null and
\* undefined included) is exactly {error: 'Invalid Lighthouse results'}.
C8_InvalidWithoutAudits ==
    (mPc = "done" /\ (mIn.t # "object" \/ "audits" \notin DOMAIN mIn.f)) =>
        mOut = [t |-> "object",
                f |-> [error |-> [t |-> "string", s |-> "Invalid Lighthouse results"]]]

C8_Witness ==
    /\ mPc = "done"
    /\ mIn.t = "object"
    /\ DOMAIN mIn.f = { "success", "format", "filePath", "report" }
    /\ DOMAIN mOut.f = { "error" }

ScoreKeys ==
    { <<"performance", "performanceScore">>, <<"accessibility", "accessibilityScore">>,
      <<"best-practices", "bestPracticesScore">>, <<"seo", "seoScore">> }

InputCategory(c) ==
    IF "categories" \in DOMAIN mIn.f /\ mIn.f["categories"].t = "object"
       /\ c \in DOMAIN mIn.f["categories"].f
    THEN mIn.f["categories"].f[c]
    ELSE [t |-> "undefined"]

\* C9: for an input with an audits section, each of the four category scores is
\* the category's fractional score times 100 rounded to the nearest integer, an
\* integer in 0..100; 0.873 gives 87 and 1.0 gives 100; the key of a category
\* the input does not hold is not written.
C9_CategoryScoresRounded ==
    (mPc = "done" /\ HasAuditsSection(mIn)) =>
        \A p \in ScoreKeys :
            LET cat == InputCategory(p[1])
            IN  /\ cat.t = "undefined" => p[2] \notin DOMAIN mOut.f
                /\ (cat.t = "object" /\ cat.f["score"].t = "number") =>
                     /\ p[2] \in DOMAIN mOut.f
                     /\ mOut.f[p[2]].t = "number"
                     /\ \E n \in 0..100 :
                          /\ mOut.f[p[2]].milli = n * 1000
                          /\ n * 1000 - cat.f["score"].milli * 100 \in -500..500
                          /\ cat.f["score"].milli = 873 => n = 87
                          /\ cat.f["score"].milli = 1000 => n = 100

C9_Witness ==
    /\ mPc = "done"
    /\ HasAuditsSection(mIn)
    /\ InputCategory("seo").t = "object"
    /\ InputCategory("seo").f["score"] = [t |-> "number", milli |-> 873]
    /\ mOut.f["seoScore"] = [t |-> "number", milli |-> 87000]
    /\ InputCategory("performance").t = "object"
    /\ InputCategory("performance").f["score"] = [t |-> "number", milli |-> 1000]
    /\ mOut.f["performanceScore"] = [t |-> "number", milli |-> 100000]

SixMetricNames ==
    { "first-contentful-paint", "largest-contentful-paint", "total-blocking-time",
      "cumulative-layout-shift", "speed-index", "interactive" }

Field(v, k) == IF k \in DOMAIN v.f THEN v.f[k] ELSE [t |-> "undefined"]

\* C10: for an input with an audits section, the metric entries of the output
\* are exactly those of the six fixed names that the input's audits hold, each
\* {score, value, displayValue} copied from the audit's score, numericValue and
\* displayValue; no other audit of the input appears.
C10_MetricEntries ==
    (mPc = "done" /\ HasAuditsSection(mIn)) =>
        LET audits == mIn.f["audits"].f
            held == { a \in SixMetricNames :
                        a \in DOMAIN audits /\ audits[a].t = "object" }
        IN  /\ DOMAIN mOut.f \ { p[2] : p \in ScoreKeys } = held
            /\ \A a \in held :
                 mOut.f[a] = [t |-> "object",
                              f |-> [score |-> Field(audits[a], "score"),
                                     value |-> Field(audits[a], "numericValue"),
                                     displayValue |-> Field(audits[a], "displayValue")]]

C10_Witness ==
    /\ mPc = "done"
    /\ HasAuditsSection(mIn)
    /\ DOMAIN mIn.f["audits"].f =
         { "first-contentful-paint", "interactive", "first-meaningful-paint" }
    /\ mIn.f["audits"].f["first-contentful-paint"].t = "null"
    /\ DOMAIN mOut.f = { "performanceScore", "interactive" }
    /\ mOut.f["interactive"].f["value"] = [t |-> "number", milli |-> 6000]

\* C11: once a SIGINT has arrived after the persistent browser was launched,
\* the process exits only with the browser closed and with code 0; a process
\* that exits without a SIGINT failed to start, exits with code 1 and has
\* served no tool call.
C11_InterruptClosesBrowser ==
    /\ (mainPc = "exited" /\ signalled /\ launches >= 1) =>
           (browser \in closed /\ exitCode = 0)
    /\ (mainPc = "exited" /\ ~signalled) => (exitCode = 1 /\ started = 0)

\* C12: a screenshot call whose selector resolved to no element is answered
\* with the error envelope carrying `Element with selector "<selector>" not
\* found`; no screenshot was captured for it.
C12_ElementNotFound ==
    \A s \in Slots :
        (calls[s].tool = "puppeteer_screenshot" /\ calls[s].found = "null") =>
            /\ Answered(s)
            /\ ~calls[s].captured
            /\ calls[s].env =
                 [kind |-> "error",
                  val |-> [t |-> "template",
                           parts |-> <<[t |-> "string", s |-> "Element with selector \""],
                                       calls[s].args.selector,
                                       [t |-> "string", s |-> "\" not found"]>>]]

C12_Witness ==
    \E s \in Slots :
        /\ Answered(s)
        /\ calls[s].tool = "puppeteer_screenshot"
        /\ calls[s].found = "null"
        /\ calls[s].args.selector = [t |-> "string", s |-> "#main"]
        /\ calls[s].env.kind = "error"

\* C13: under any interleaving of calls at their await points at most one
\* page is created per browser process and all handlers in flight hold the
\* same page handle.
C13_OnePageUnderInterleaving ==
    /\ newPages <= launches
    /\ \A s1, s2 \in Slots :
         (calls[s1].page # 0 /\ calls[s2].page # 0) => calls[s1].page = calls[s2].page

\* C14: the configuration handed to the audit engine restricts it to the
\* categories argument of the call when one is given, and otherwise to the
\* tool's defaults: the four non-pwa categories for analyze, performance for
\* get_metrics.
C14_ConfigCarriesCategories ==
    \A s \in Slots :
        (calls[s].chrome # 0 /\ calls[s].tool \in { "lighthouse_analyze", "lighthouse_get_metrics" }) =>
            calls[s].config.onlyCategories =
                IF calls[s].args.categories.t = "array"
                THEN calls[s].args.categories
                ELSE IF calls[s].tool = "lighthouse_analyze"
                THEN [t |-> "array",
                      items |-> { "performance", "accessibility", "best-practices", "seo" }]
                ELSE [t |-> "array", items |-> { "performance" }]

\* C15: an answer of analyze with onlyMetrics, or of get_metrics, that says
\* success: true carries metrics derived from the report, never the
\* {error: 'Invalid Lighthouse results'} object, whatever the format.
C15_SuccessHasMetrics ==
    \A s \in Slots :
        (/\ Answered(s)
         /\ calls[s].tool \in { "lighthouse_analyze", "lighthouse_get_metrics" }
         /\ calls[s].env.kind = "result"
         /\ calls[s].env.val.t = "object"
         /\ "metrics" \in DOMAIN calls[s].env.val.f
         /\ calls[s].env.val.f["success"] = [t |-> "boolean", b |-> TRUE]) =>
            calls[s].env.val.f["metrics"] #
                [t |-> "object",
                 f |-> [error |-> [t |-> "string", s |-> "Invalid Lighthouse results"]]]

AuditInFlight(cs) ==
    \E s \in Slots :
        /\ cs[s].tool \in { "lighthouse_analyze", "lighthouse_get_metrics" }
        /\ cs[s].pc # "idle"

\* C16: once startup's openBrowser has succeeded, tool calls never launch a
\* second persistent browser, never close the first, never reset the handle to
\* null, never empty the page table and never move the page id counter from 0;
\* getCurrentPage never takes its lazy-init branch; the handle changes only in
\* a step that completes a launch; audit steps leave browser, page table and
\* id counter as they are.
C16_BrowserWrittenOnce ==
    /\ [](mainPc = "serving" =>
            /\ browser = 1
            /\ launches = 1
            /\ closed = {}
            /\ pageId = 0
            /\ newPages >= 1 => pages # {}
            /\ \A s \in Slots : calls[s].pc # "opening")
    /\ [][/\ browser' # browser => launches' = launches + 1
          /\ browser # 0 => browser' # 0
          /\ pages # {} => pages' # {}
          /\ AuditInFlight(calls') => UNCHANGED <<browser, pages, pageId>>]_vars

C16_Witness ==
    /\ mainPc = "serving"
    /\ started = 2
    /\ browser = 1
    /\ pages = { <<<<"page_", 0>>, 1>> }
    /\ \E s \in Slots :
         /\ Answered(s)
         /\ calls[s].tool = "lighthouse_analyze"
         /\ calls[s].engineThrew

====
